---- MODULE Spec2Model ----
(***************************************************************************)
(* RAG-based RFP responder: the retrieval / generation / retry core        *)
(* (src/src/rag_engine.py, src/src/agentic_orchestrator.py) and the        *)
(* compliance-sheet consumer (src/src/batch_processor.py).                 *)
(*                                                                         *)
(* Python str values are TLA+ strings; a character is a string of length   *)
(* one, s[i] (0-based) is SubSeq(s, i + 1, i + 1).                         *)
(***************************************************************************)
EXTENDS Integers, Sequences, FiniteSets, TLC

VARIABLES
    pc,          \* position of the running entry point
    text,        \* _truncate_at_sentence: argument text
    max_chars,   \* _truncate_at_sentence: argument max_chars
    truncated,   \* _truncate_at_sentence: return value
    config,      \* what load_config() returned: the keys of config.yaml
    kb,          \* the "knowledge_base" collection: payload texts, nearest first
    mode,        \* "compliance", "proposal" or "answer"
    context,     \* retrieve_context: return value
    question,    \* agentic_rfp_answer: argument question
    provider,    \* agentic_rfp_answer: argument provider
    retries,     \* agentic_rfp_answer: argument retries
    attempt,     \* agentic_rfp_answer: loop variable attempt
    response,    \* agentic_rfp_answer: local response
    result,      \* agentic_rfp_answer: return value
    retrieveCalls,     \* history: calls of retrieve_context in this call
    retrieveFailures,  \* history: those that raised
    generateCalls,     \* history: calls of generate_answer in this call
    lastCall,    \* history: the last retrieve_context / generate_answer call
    firstValid,  \* history: the first non-empty, non-sentinel generation result
    caller,      \* who called agentic_rfp_answer: "none" (called directly),
                 \* "compliance" or "proposal"
    excel,       \* process_compliance_sheet: the sheets of input_file
    sheet_pos,   \* process_compliance_sheet: position in excel.sheet_names (1-based)
    df,          \* process_compliance_sheet: the rows of the sheet in hand
    row_pos,     \* process_compliance_sheet: position of df.iterrows() (1-based)
    current_section,  \* process_compliance_sheet: local current_section
    counters,    \* process_compliance_sheet: processed, skipped, errors
    writer,      \* process_compliance_sheet: the sheets written to output_file
    word_doc,    \* process_compliance_sheet: the Word summary
    written,     \* history: the rows whose cells were filled, with the response
    asked,       \* history: the calls of agentic_rfp_answer the sheet processor made
    sections,    \* generate_proposal_from_sections: argument sections
    resume,      \* generate_proposal_from_sections: argument resume
    file,        \* the file at output_path: whether it exists, and its paragraphs
    doc,         \* generate_proposal_from_sections: the Document in memory
    existing_headings,  \* generate_proposal_from_sections: local existing_headings
    sec_pos,     \* generate_proposal_from_sections: position in sections (1-based)
    tally,       \* generate_proposal_from_sections: completed, skipped, errors
    aborts,      \* interrupts and failures that hit the proposal runs so far
    run          \* history of the run in hand

truncVars == <<text, max_chars, truncated>>
retrVars == <<config, kb, mode, context>>
orchVars == <<question, provider, retries, attempt, response, result,
              retrieveCalls, retrieveFailures, generateCalls, lastCall, firstValid>>
compVars == <<caller, excel, sheet_pos, df, row_pos, current_section, counters,
              writer, word_doc, written, asked>>
propVars == <<sections, resume, file, doc, existing_headings, sec_pos, tally,
              aborts, run>>
vars == <<pc, truncVars, retrVars, orchVars, compVars, propVars>>

-----------------------------------------------------------------------------
(* Bounds of the model *)

\* Longest text handed to _truncate_at_sentence in the truncation runs.
MaxTextLen == 4
\* Largest max_chars handed to _truncate_at_sentence in the truncation runs.
MaxChars == 4
\* Largest top_k_excel / top_k_pdf a config.yaml of the runs sets.
MaxTopK == 2
\* Largest max_context_excel / max_context_pdf a config.yaml of the runs sets.
MaxBudget == 4
\* Most points the knowledge base holds in the retrieval runs.
MaxKb == 2
\* Largest retries argument of the orchestrator runs (the default is 2).
MaxRetries == 2
\* Most interrupts and failures that hit the proposal runs.
MaxAborts == 1

-----------------------------------------------------------------------------
(* Python str primitives *)

Min(a, b) == IF a <= b THEN a ELSE b

\* s[i] for 0 <= i < len(s)
CharAt(s, i) == SubSeq(s, i + 1, i + 1)

\* s[:n] for n >= 0
Prefix(s, n) == SubSeq(s, 1, Min(n, Len(s)))

\* s[n:] for n >= 0
Suffix(s, n) == SubSeq(s, n + 1, Len(s))

\* s.rfind(c) for a one-character c: the highest 0-based index, or -1
RFind(s, c) ==
    LET hits == {i \in 0..(Len(s) - 1) : CharAt(s, i) = c}
    IN  IF hits = {} THEN -1 ELSE CHOOSE i \in hits : \A j \in hits : j <= i

\* the characters str.strip() removes
Whitespace == {" ", "\n", "\t", "\r", "\f"}

\* s.lstrip()
RECURSIVE LStrip(_)
LStrip(s) ==
    IF Len(s) > 0 /\ CharAt(s, 0) \in Whitespace THEN LStrip(Suffix(s, 1)) ELSE s

\* s.rstrip()
RECURSIVE RStrip(_)
RStrip(s) ==
    IF Len(s) > 0 /\ CharAt(s, Len(s) - 1) \in Whitespace
    THEN RStrip(Prefix(s, Len(s) - 1))
    ELSE s

\* s.strip()
Strip(s) == LStrip(RStrip(s))

\* every string of length at most n over the characters in alphabet
RECURSIVE Strings(_, _)
Strings(alphabet, n) ==
    IF n = 0 THEN {""}
    ELSE LET shorter == Strings(alphabet, n - 1)
         IN  shorter \cup {s \o c : s \in shorter, c \in alphabet}

-----------------------------------------------------------------------------
(* rag_engine._truncate_at_sentence *)

\* Faulty variant: the cut at the period leaves the period out
\* (truncated[:last_period] for truncated[:last_period + 1]).
TruncateAtSentence_DropsPeriod(t, m) ==
    IF Len(t) <= m THEN t
    ELSE LET cut == Prefix(t, m)
             last_period == RFind(cut, ".")
         IN  IF last_period # -1 THEN Prefix(cut, last_period) ELSE cut

\* Faulty variant: without a period the text comes back uncut.
TruncateAtSentence_NoHardCut(t, m) ==
    IF Len(t) <= m THEN t
    ELSE LET cut == Prefix(t, m)
             last_period == RFind(cut, ".")
         IN  IF last_period # -1 THEN Prefix(cut, last_period + 1) ELSE t

TruncateAtSentence(t, m) ==
    IF Len(t) <= m THEN t
    ELSE LET cut == Prefix(t, m)
             last_period == RFind(cut, ".")
         IN  IF last_period # -1 THEN Prefix(cut, last_period + 1) ELSE cut

\* Texts and budgets of the truncation runs
TruncAlphabet == {"a", ".", " "}
TruncTexts == Strings(TruncAlphabet, MaxTextLen)

\* the variables of a component that is not running
IdleTrunc == text = "" /\ max_chars = 0 /\ truncated = ""
IdleRetr == config = <<>> /\ kb = <<>> /\ mode = "answer" /\ context = ""
NoCall == [fn |-> "none"]
NoValid == [seen |-> FALSE]
\* no call of agentic_rfp_answer is in progress
NoCallFrame ==
    /\ question = "" /\ retries = 0 /\ attempt = 0
    /\ response = "" /\ result = ""
    /\ retrieveCalls = 0 /\ retrieveFailures = 0 /\ generateCalls = 0
    /\ lastCall = NoCall /\ firstValid = NoValid
IdleOrch == provider = "ollama" /\ NoCallFrame
NoCounters == [processed |-> 0, skipped |-> 0, errors |-> 0]
IdleComp ==
    /\ caller = "none" /\ excel = <<>> /\ sheet_pos = 0 /\ df = <<>> /\ row_pos = 0
    /\ current_section = "" /\ counters = NoCounters
    /\ writer = <<>> /\ word_doc = <<>> /\ written = <<>> /\ asked = <<>>
NoFile == [exists |-> FALSE, paragraphs |-> <<>>]
NoTally == [completed |-> 0, skipped |-> 0, errors |-> 0]
NoRun == [start_file |-> NoFile, after_done |-> FALSE, from_scratch |-> TRUE,
          asked |-> <<>>, added |-> <<>>, completed |-> <<>>]
IdleProp ==
    /\ sections = <<>> /\ resume = TRUE /\ file = NoFile /\ doc = <<>>
    /\ existing_headings = {} /\ sec_pos = 0 /\ tally = NoTally /\ aborts = 0
    /\ run = NoRun

InitTrunc ==
    /\ pc = "truncate"
    /\ text \in TruncTexts
    /\ max_chars \in 0..MaxChars
    /\ truncated = ""
    /\ IdleRetr
    /\ IdleOrch
    /\ IdleComp
    /\ IdleProp

Truncate ==
    /\ pc = "truncate"
    /\ truncated' = TruncateAtSentence(text, max_chars)
    /\ pc' = "truncated"
    /\ UNCHANGED <<text, max_chars, retrVars, orchVars, compVars, propVars>>

NextTrunc == Truncate

SpecTrunc == InitTrunc /\ [][NextTrunc]_vars

\* the truncation window: the first max_chars characters of text
Window == Prefix(text, max_chars)
HasPeriod(s) == RFind(s, ".") # -1
EndsWithPeriod(s) == Len(s) > 0 /\ CharAt(s, Len(s) - 1) = "."
\* the prefix of text up to and including the rightmost '.' of the window
UpToLastPeriod == Prefix(text, RFind(Window, ".") + 1)

\* C8 as stated: whenever the window holds a '.', the result ends with '.'
\* and is the prefix of text up to and including the window's rightmost '.'.
C8_AsStated ==
    (pc = "truncated" /\ HasPeriod(Window))
        => (EndsWithPeriod(truncated) /\ truncated = UpToLastPeriod)

\* C8 amended: for a text longer than max_chars whose window holds a '.', the
\* result ends with '.' and is the prefix of text up to and including the
\* window's rightmost '.'.
C8_SentenceSafety ==
    (pc = "truncated" /\ Len(text) > max_chars /\ HasPeriod(Window))
        => (EndsWithPeriod(truncated) /\ truncated = UpToLastPeriod)

\* a text longer than the budget was cut back to a period inside the window
C8_Witness ==
    /\ pc = "truncated"
    /\ Len(text) > max_chars
    /\ HasPeriod(Window)
    /\ Len(truncated) < max_chars
    /\ Len(truncated) > 1

\* C9 as stated: whenever the window holds no '.', the result is exactly
\* max_chars characters long.
C9_AsStated ==
    (pc = "truncated" /\ ~HasPeriod(Window)) => Len(truncated) = max_chars

\* C9 amended: for a text of at least max_chars characters with no '.' in the
\* window, the result is exactly max_chars characters long.
C9_HardTruncation ==
    (pc = "truncated" /\ Len(text) >= max_chars /\ ~HasPeriod(Window))
        => Len(truncated) = max_chars

\* a period-free window of a longer text was cut hard
C9_Witness ==
    /\ pc = "truncated"
    /\ Len(text) > max_chars
    /\ max_chars > 0
    /\ ~HasPeriod(Window)
    /\ truncated = Window

-----------------------------------------------------------------------------
(* rag_engine: configuration and retrieve_context *)

Modes == {"compliance", "proposal", "answer"}

\* config.get(key, default)
ConfigGet(cfg, key, default) == IF key \in DOMAIN cfg THEN cfg[key] ELSE default

TOP_K_EXCEL(cfg) == ConfigGet(cfg, "top_k_excel", 1)
TOP_K_PDF(cfg) == ConfigGet(cfg, "top_k_pdf", 3)
MAX_CONTEXT_EXCEL(cfg) == ConfigGet(cfg, "max_context_excel", 800)
MAX_CONTEXT_PDF(cfg) == ConfigGet(cfg, "max_context_pdf", 2000)

TopK(cfg, m) == IF m = "compliance" THEN TOP_K_EXCEL(cfg) ELSE TOP_K_PDF(cfg)

MaxContext(cfg, m) ==
    IF m = "compliance" THEN MAX_CONTEXT_EXCEL(cfg) ELSE MAX_CONTEXT_PDF(cfg)

\* qdrant.query_points(..., limit=top_k).points: the nearest top_k payloads
QueryPoints(store, limit) == SubSeq(store, 1, Min(limit, Len(store)))

\* "\n".join(parts)
RECURSIVE JoinLines(_)
JoinLines(parts) ==
    IF Len(parts) = 0 THEN ""
    ELSE IF Len(parts) = 1 THEN parts[1]
    ELSE parts[1] \o "\n" \o JoinLines(Tail(parts))

\* the chunks list: each non-empty stripped payload text, cut to its share
RECURSIVE Chunks(_, _)
Chunks(results, share) ==
    IF Len(results) = 0 THEN <<>>
    ELSE LET chunk == Strip(Head(results))
             rest == Chunks(Tail(results), share)
         IN  IF chunk # "" THEN <<TruncateAtSentence(chunk, share)>> \o rest
             ELSE rest

\* context = "\n".join(chunks), before the final truncation
JoinedChunks(store, cfg, m) ==
    LET top_k == TopK(cfg, m)
        max_context == MaxContext(cfg, m)
    IN  JoinLines(Chunks(QueryPoints(store, top_k), max_context \div top_k))

\* Faulty variant: the joined chunks are returned without the final truncation.
RetrieveContext_NoFinalCut(store, cfg, m) == JoinedChunks(store, cfg, m)

RetrieveContext(store, cfg, m) ==
    TruncateAtSentence(JoinedChunks(store, cfg, m), MaxContext(cfg, m))

\* Payload texts of the runs ("" is also a payload without a "text" key)
ChunkTexts == {"", " ", "a", "a.", " a. ", "aa.a", ".aaa", "aaaaa"}

RECURSIVE Lists(_, _)
Lists(S, n) ==
    IF n = 0 THEN {<<>>}
    ELSE LET shorter == Lists(S, n - 1)
         IN  shorter \cup {Append(l, x) : l \in shorter, x \in S}

\* config.yaml files of the retrieval runs: one mode's keys set, the other
\* mode's keys absent (so its defaults apply), or no key at all
RetrConfigs ==
    {[top_k_excel |-> k, max_context_excel |-> m] : k \in 1..MaxTopK, m \in 0..MaxBudget}
    \cup {[top_k_pdf |-> k, max_context_pdf |-> m] : k \in 1..MaxTopK, m \in 0..MaxBudget}
    \cup {<<>>}

InitRetr ==
    /\ pc = "retrieve"
    /\ config \in RetrConfigs
    /\ kb \in Lists(ChunkTexts, MaxKb)
    /\ mode \in Modes
    /\ context = ""
    /\ IdleTrunc
    /\ IdleOrch
    /\ IdleComp
    /\ IdleProp

Retrieve ==
    /\ pc = "retrieve"
    /\ context' = RetrieveContext(kb, config, mode)
    /\ pc' = "retrieved"
    /\ UNCHANGED <<truncVars, config, kb, mode, orchVars, compVars, propVars>>

NextRetr == Retrieve

SpecRetr == InitRetr /\ [][NextRetr]_vars

\* C7: the context retrieve_context returns is never longer than the mode's
\* max-context budget (max_context_excel for compliance, max_context_pdf
\* otherwise), and it is empty when no retrieved chunk is non-empty.
C7_ContextWithinBudget ==
    pc = "retrieved" =>
        /\ Len(context) <=
             (IF mode = "compliance" THEN MAX_CONTEXT_EXCEL(config)
                                     ELSE MAX_CONTEXT_PDF(config))
        /\ (\A i \in 1..Min(TopK(config, mode), Len(kb)) : Strip(kb[i]) = "")
             => context = ""

\* the newline joins pushed the per-chunk-truncated texts over the budget and
\* the final truncation cut them back
C7_Witness ==
    /\ pc = "retrieved"
    /\ Len(JoinedChunks(kb, config, mode)) > MaxContext(config, mode)
    /\ context # ""
    /\ Len(context) <= MaxContext(config, mode)

-----------------------------------------------------------------------------
(* rag_engine.generate_answer *)

FALLBACK_RESPONSE ==
    "Based on the current knowledge base, limited information is available."

Providers == {"gemini", "ollama"}

\* a return or a raise of a call
Return(v) == [raised |-> FALSE, value |-> v]
Raise == [raised |-> TRUE, value |-> ""]

\* Texts a completion provider sends back in the runs
CompletionTexts ==
    { "", " \n",
      "YES\nFully compliant via OAuth2 module.",
      " yes \n ok \n",
      "No",
      "Partial\r\n\n two\nlines",
      "Maybe\nsome text",
      FALLBACK_RESPONSE,
      " " \o FALLBACK_RESPONSE \o "\n" }

\* What the cloud SDK does in one call. raises names the statement that raised:
\* genai.GenerativeModel(...), model.generate_content(...), response.text
\* (a blocked candidate), or "none"; text is response.text ("" also for None).
GeminiReplies ==
    {[raises |-> site, text |-> ""] :
        site \in {"GenerativeModel", "generate_content", "text"}}
    \cup {[raises |-> "none", text |-> t] : t \in CompletionTexts}

\* What the local server does in one call. raises names the statement that
\* raised: requests.post(...) (connection, timeout), response.json() (a body
\* that is no JSON), .strip() (a "response" that is no string), or "none";
\* status is response.status_code; body is response.json().
OllamaReplies ==
    {[raises |-> "post", status |-> 0, body |-> <<>>]}
    \cup {[raises |-> site, status |-> 200, body |-> <<>>] : site \in {"json", "strip"}}
    \cup {[raises |-> "none", status |-> 200, body |-> <<>>]}
    \cup {[raises |-> "none", status |-> 200, body |-> [response |-> t]] :
            t \in CompletionTexts}
    \cup {[raises |-> "none", status |-> st, body |-> [response |-> t]] :
            st \in {404, 500}, t \in {"", "Maybe\nsome text"}}

Replies(prov) == IF prov = "gemini" THEN GeminiReplies ELSE OllamaReplies

\* the Gemini branch: everything from GenerativeModel(...) on is inside the try
GenerateGemini(reply) ==
    IF reply.raises # "none" THEN Return(FALLBACK_RESPONSE)
    ELSE IF reply.text # "" THEN Return(Strip(reply.text))
    ELSE Return(FALLBACK_RESPONSE)

\* Faulty variant: response.json() is parsed after the try block.
GenerateOllama_JsonOutsideTry(reply) ==
    IF reply.raises = "post" THEN Return(FALLBACK_RESPONSE)
    ELSE IF reply.status = 200
         THEN IF reply.raises = "json" THEN Raise
              ELSE IF reply.raises = "strip" THEN Return(FALLBACK_RESPONSE)
              ELSE Return(Strip(ConfigGet(reply.body, "response", "")))
    ELSE Return(FALLBACK_RESPONSE)

\* Faulty variant: the generated text is returned without .strip().
GenerateOllama_NoStrip(reply) ==
    IF reply.raises = "post" THEN Return(FALLBACK_RESPONSE)
    ELSE IF reply.status = 200
         THEN IF reply.raises # "none" THEN Return(FALLBACK_RESPONSE)
              ELSE Return(ConfigGet(reply.body, "response", ""))
    ELSE Return(FALLBACK_RESPONSE)

\* the Ollama branch: requests.post(...) and all that follows are inside the try;
\* response.json().get("response", "") is a dict lookup with a default
GenerateOllama(reply) ==
    IF reply.raises = "post" THEN Return(FALLBACK_RESPONSE)
    ELSE IF reply.status = 200
         THEN IF reply.raises # "none" THEN Return(FALLBACK_RESPONSE)
              ELSE Return(Strip(ConfigGet(reply.body, "response", "")))
    ELSE Return(FALLBACK_RESPONSE)

GenerateAnswer(prov, reply) ==
    IF prov = "gemini" THEN GenerateGemini(reply) ELSE GenerateOllama(reply)

\* the completion call of a reply failed: it raised, or (local provider) the
\* HTTP status was not 200
ReplyFailed(prov, reply) ==
    \/ reply.raises # "none"
    \/ prov # "gemini" /\ reply.status # 200

-----------------------------------------------------------------------------
(* agentic_orchestrator.agentic_rfp_answer *)

\* Faulty variant: one attempt too many (range(1, retries + 3)).
LastAttempt_OneMore(r) == r + 2

\* the last value of range(1, retries + 2)
LastAttempt(r) == r + 1

\* Faulty variant: the emptiness test of the response is missing.
Accepts_NoEmptyTest(resp) == Strip(resp) # FALLBACK_RESPONSE

\* if response and response.strip() != FALLBACK_RESPONSE
Accepts(resp) == resp # "" /\ Strip(resp) # FALLBACK_RESPONSE

\* Faulty variant: retrieve_context is called before the try block.
TryCovers_NotRetrieval(site) == site = "generate_answer"

\* the statements of the loop body that are inside try ... except Exception
TryCovers(site) == site \in {"retrieve_context", "generate_answer"}

\* the end of an attempt that returned nothing: the next iteration, or after
\* the last one the return of the sentinel
NextAttempt ==
    IF attempt < LastAttempt(retries)
    THEN /\ attempt' = attempt + 1
         /\ pc' = "attempt"
         /\ result' = result
    ELSE /\ attempt' = attempt
         /\ pc' = "returned"
         /\ result' = FALLBACK_RESPONSE

\* an exception raised at site: handled by the except clause, or propagated
OnException(site) ==
    IF TryCovers(site)
    THEN NextAttempt
    ELSE pc' = "raised" /\ UNCHANGED <<attempt, result>>

\* knowledge bases and config.yaml files of the orchestrator runs
OrchKbs == {<<>>, <<"System supports OAuth2.">>, <<" ", "a. b", "c">>}
OrchConfigs == {<<>>, [top_k_pdf |-> 2, max_context_pdf |-> 4]}

InitOrch ==
    /\ pc = "attempt"
    /\ IdleTrunc
    /\ config \in OrchConfigs
    /\ kb \in OrchKbs
    /\ mode \in Modes
    /\ context = ""
    /\ question = "OAuth2 support"
    /\ provider \in Providers
    /\ retries \in 0..MaxRetries
    /\ attempt = 1
    /\ response = ""
    /\ result = ""
    /\ retrieveCalls = 0 /\ retrieveFailures = 0 /\ generateCalls = 0
    /\ lastCall = NoCall
    /\ firstValid = NoValid
    /\ IdleComp
    /\ IdleProp

\* context = retrieve_context(question, mode) returns
RetrieveReturns ==
    /\ pc = "attempt"
    /\ context' = RetrieveContext(kb, config, mode)
    /\ retrieveCalls' = retrieveCalls + 1
    /\ lastCall' = [fn |-> "retrieve", attempt |-> attempt, raised |-> FALSE]
    /\ pc' = "generate"
    /\ UNCHANGED <<truncVars, config, kb, mode, question, provider, retries,
                   attempt, response, result, retrieveFailures, generateCalls,
                   firstValid, compVars, propVars>>

\* retrieve_context(question, mode) raises (embedding model or vector store)
RetrieveRaises ==
    /\ pc = "attempt"
    /\ retrieveCalls' = retrieveCalls + 1
    /\ retrieveFailures' = retrieveFailures + 1
    /\ lastCall' = [fn |-> "retrieve", attempt |-> attempt, raised |-> TRUE,
                    generateCalls |-> generateCalls]
    /\ OnException("retrieve_context")
    /\ UNCHANGED <<truncVars, retrVars, question, provider, retries, response,
                   generateCalls, firstValid, compVars, propVars>>

\* response = generate_answer(context, question, mode, provider) and the test
\* of the response that follows it
Generate ==
    /\ pc = "generate"
    /\ \E reply \in Replies(provider) :
         LET r == GenerateAnswer(provider, reply)
             valid == ~r.raised /\ r.value # "" /\ r.value # FALLBACK_RESPONSE
         IN  /\ generateCalls' = generateCalls + 1
             /\ lastCall' = [fn |-> "generate", attempt |-> attempt,
                             raised |-> r.raised, reply |-> reply,
                             value |-> r.value]
             /\ firstValid' =
                  IF valid /\ ~firstValid.seen
                  THEN [seen |-> TRUE, value |-> r.value,
                        retrieveCalls |-> retrieveCalls,
                        generateCalls |-> generateCalls + 1]
                  ELSE firstValid
             /\ IF r.raised
                THEN response' = response /\ OnException("generate_answer")
                ELSE /\ response' = r.value
                     /\ IF Accepts(r.value)
                        THEN /\ result' = r.value
                             /\ pc' = "returned"
                             /\ attempt' = attempt
                        ELSE NextAttempt
    /\ UNCHANGED <<truncVars, retrVars, question, provider, retries,
                   retrieveCalls, retrieveFailures, compVars, propVars>>

NextOrch == RetrieveReturns \/ RetrieveRaises \/ Generate

SpecOrch == InitOrch /\ [][NextOrch]_vars

Sentinel == "Based on the current knowledge base, limited information is available."

\* C1: retrieve_context and generate_answer are each called at most
\* retries + 1 times in a call; with retries = 2 that is at most 3 of each.
C1_AttemptBound ==
    /\ retrieveCalls <= retries + 1
    /\ generateCalls <= retries + 1
    /\ attempt <= retries + 1
    /\ retries = 2 => (retrieveCalls <= 3 /\ generateCalls <= 3)

\* a call with the default retries = 2 used all three attempts
C1_Witness ==
    /\ pc = "returned"
    /\ retries = 2
    /\ retrieveCalls = 3
    /\ generateCalls = 3

\* C2: once generate_answer has returned a non-empty result other than the
\* sentinel, the call has returned exactly that result and has made no
\* retrieval or generation call since.
C2_FirstValidEndsCall ==
    firstValid.seen =>
        /\ pc = "returned"
        /\ result = firstValid.value
        /\ retrieveCalls = firstValid.retrieveCalls
        /\ generateCalls = firstValid.generateCalls

\* a valid result ended the call with retry budget left
C2_Witness ==
    /\ firstValid.seen
    /\ pc = "returned"
    /\ attempt < retries + 1
    /\ result = "YES\nFully compliant via OAuth2 module."

\* C3: a call in which no attempt produced a non-empty, non-sentinel result
\* returns exactly the sentinel, and no call returns the empty string.
C3_ExhaustedReturnsSentinel ==
    pc = "returned" =>
        /\ ~firstValid.seen => (result = Sentinel /\ retrieveCalls = retries + 1)
        /\ result # ""

\* all attempts failed, one of them on an empty generation result
C3_Witness ==
    /\ pc = "returned"
    /\ ~firstValid.seen
    /\ retries > 0
    /\ lastCall.fn = "generate"
    /\ lastCall.value = ""
    /\ result = Sentinel

\* C4: the call never raises; a retrieve_context that raises in attempt n is
\* followed by no generation call in that attempt, and the loop goes on to
\* attempt n + 1 when attempts remain (otherwise the call returns the sentinel).
C4_NeverRaises ==
    /\ pc # "raised"
    /\ generateCalls + retrieveFailures <= retrieveCalls
    /\ (lastCall.fn = "retrieve" /\ lastCall.raised) =>
          /\ generateCalls = lastCall.generateCalls
          /\ IF lastCall.attempt < retries + 1
             THEN pc = "attempt" /\ attempt = lastCall.attempt + 1
             ELSE pc = "returned" /\ result = Sentinel

\* a retrieval raised in attempt 1 and attempt 2 went on to generate
C4_Witness ==
    /\ retrieveFailures = 1
    /\ retrieveCalls = 2
    /\ lastCall.fn = "generate"
    /\ lastCall.attempt = 2

\* C5: generate_answer never raises, and returns exactly the sentinel when the
\* completion call raised or (local provider) answered with a status other
\* than 200.
C5_GenerateNeverRaises ==
    lastCall.fn = "generate" =>
        /\ ~lastCall.raised
        /\ ReplyFailed(provider, lastCall.reply) => lastCall.value = Sentinel

\* the local server's body could not be parsed and the sentinel came back
C5_Witness ==
    /\ lastCall.fn = "generate"
    /\ provider = "ollama"
    /\ lastCall.reply.raises = "json"
    /\ lastCall.value = Sentinel

\* C6 as stated: generate_answer never returns the empty string.
C6_NeverEmpty ==
    (lastCall.fn = "generate" /\ ~lastCall.raised) => lastCall.value # ""

-----------------------------------------------------------------------------
(* batch_processor: _is_section_header and process_compliance_sheet *)

\* the retries parameter's default, which process_compliance_sheet leaves alone
DEFAULT_RETRIES == 2

FEATURE_COL == "Feature / Capability"
COMPLIANCE_COL == "Compliance (Yes/No/Partial)"
REMARKS_COL == "Remarks / Notes  (For Partial put remarks of capability)"

LowerCase == "abcdefghijklmnopqrstuvwxyz"
UpperCase == "ABCDEFGHIJKLMNOPQRSTUVWXYZ"

\* c.upper() / c.lower() for one character
UpperChar(c) ==
    LET hits == {i \in 0..(Len(LowerCase) - 1) : CharAt(LowerCase, i) = c}
    IN  IF hits = {} THEN c ELSE CharAt(UpperCase, CHOOSE i \in hits : TRUE)
LowerChar(c) ==
    LET hits == {i \in 0..(Len(UpperCase) - 1) : CharAt(UpperCase, i) = c}
    IN  IF hits = {} THEN c ELSE CharAt(LowerCase, CHOOSE i \in hits : TRUE)

\* s.upper(), s.lower()
RECURSIVE Upper(_)
Upper(s) == IF s = "" THEN "" ELSE UpperChar(CharAt(s, 0)) \o Upper(Suffix(s, 1))
RECURSIVE Lower(_)
Lower(s) == IF s = "" THEN "" ELSE LowerChar(CharAt(s, 0)) \o Lower(Suffix(s, 1))

\* s.find(c) for a one-character c: the lowest 0-based index, or -1
Find(s, c) ==
    LET hits == {i \in 0..(Len(s) - 1) : CharAt(s, i) = c}
    IN  IF hits = {} THEN -1 ELSE CHOOSE i \in hits : \A j \in hits : i <= j

\* s.split("\n")
RECURSIVE SplitLines(_)
SplitLines(s) ==
    LET i == Find(s, "\n")
    IN  IF i = -1 THEN <<s>>
        ELSE <<Prefix(s, i)>> \o SplitLines(Suffix(s, i + 1))

\* s.rstrip(":")
RECURSIVE RStripColon(_)
RStripColon(s) ==
    IF Len(s) > 0 /\ CharAt(s, Len(s) - 1) = ":"
    THEN RStripColon(Prefix(s, Len(s) - 1))
    ELSE s

\* s.endswith(":")
EndsWithColon(s) == Len(s) > 0 /\ CharAt(s, Len(s) - 1) = ":"

\* row.get(col, ""): a row is a function from the sheet's columns to the str()
\* of its cells (an empty cell reads as NaN, whose str() is "nan")
RowGet(row, col) == IF col \in DOMAIN row THEN row[col] ELSE ""

\* Faulty variant: the length test is missing.
IsSectionHeader_NoLengthTest(row) ==
    LET t == Strip(RowGet(row, FEATURE_COL))
        compliance_val == Strip(RowGet(row, COMPLIANCE_COL))
        remarks_val == Strip(RowGet(row, REMARKS_COL))
    IN  \/ EndsWithColon(t)
        \/ /\ compliance_val \in {"", "nan"}
           /\ remarks_val \in {"", "nan"}

IsSectionHeader(row) ==
    LET t == Strip(RowGet(row, FEATURE_COL))
        compliance_val == Strip(RowGet(row, COMPLIANCE_COL))
        remarks_val == Strip(RowGet(row, REMARKS_COL))
    IN  \/ EndsWithColon(t)
        \/ /\ compliance_val \in {"", "nan"}
           /\ remarks_val \in {"", "nan"}
           /\ Len(t) < 60

\* Faulty variant: the first line is written as it came, without the coercion.
Verdict_NoCoercion(resp) == Upper(Strip(SplitLines(resp)[1]))

\* compliance = lines[0].strip().upper(), coerced to PARTIAL
Verdict(resp) ==
    LET compliance == Upper(Strip(SplitLines(resp)[1]))
    IN  IF compliance \notin {"YES", "NO", "PARTIAL"} THEN "PARTIAL" ELSE compliance

\* remarks = "\n".join(lines[1:]).strip()
Remarks(resp) == Strip(JoinLines(Tail(SplitLines(resp))))

\* the query of a feature row
EnrichedQuery(section, t) ==
    IF section # "" THEN Strip(section \o " " \o t) ELSE t

\* a sheet after df.columns = df.columns.astype(str).str.strip() and after the
\* two output columns were added (as "") where missing
WithOutputColumns(rows) ==
    [i \in 1..Len(rows) |->
        [c \in DOMAIN rows[i] \cup {COMPLIANCE_COL, REMARKS_COL} |->
            IF c \in DOMAIN rows[i] THEN rows[i][c] ELSE ""]]

\* Sheets of the runs. A sheet is the sequence of its rows.
LongFeature ==
    "Supports SSO, SAML, OAuth2, and LDAP integration with fallback to local auth mechanisms"

Row3(f, c, r) ==
    [x \in {FEATURE_COL, COMPLIANCE_COL, REMARKS_COL} |->
        IF x = FEATURE_COL THEN f ELSE IF x = COMPLIANCE_COL THEN c ELSE r]
Row1(f) == [x \in {FEATURE_COL} |-> f]
OtherRow == [x \in {"Notes"} |-> "free text"]

Workbooks ==
    { \* a header, a long feature, a short feature with empty cells, an empty row
      << <<Row3("Technical Requirements:", "nan", "nan"),
           Row3(LongFeature, "nan", "nan"),
           Row3("OAuth2 support", "nan", "nan"),
           Row3("nan", "nan", "nan")>> >>,
      \* rows whose cells were filled in before
      << <<Row3("OAuth2 support", "No", "old remark"),
           Row3("Security::", "nan", "nan"),
           Row3(" Encrypts data at rest ", "nan", "tbd")>> >>,
      \* a sheet without the feature column, then one without output columns
      << <<OtherRow>>, <<Row1(LongFeature), Row1("Supports SSO")>> >>,
      \* a single short feature whose cells are not filled in yet
      << <<Row3("OAuth2 support", "nan", "nan")>> >>,
      \* a section in the first sheet, a feature before any header in the second
      << <<Row3("Access :", "nan", "nan"), Row3("Audit logs", "Yes", "nan")>>,
         <<Row3(LongFeature, "nan", "nan")>> >> }

InitComp ==
    /\ pc = "sheet"
    /\ IdleTrunc
    /\ config = <<>>
    /\ kb \in {<<>>, <<"System supports OAuth2.">>}
    /\ mode = "compliance"
    /\ context = ""
    /\ NoCallFrame
    /\ provider \in Providers
    /\ caller = "compliance"
    /\ excel \in Workbooks
    /\ sheet_pos = 1
    /\ df = <<>>
    /\ row_pos = 0
    /\ current_section = ""
    /\ counters = NoCounters
    /\ writer = <<>>
    /\ word_doc = <<>>
    /\ written = <<>>
    /\ asked = <<>>
    /\ IdleProp

HasFeatureColumn(rows) == \E i \in 1..Len(rows) : FEATURE_COL \in DOMAIN rows[i]

\* for sheet_name in excel.sheet_names: a sheet without the feature column is
\* written through
SkipSheet ==
    /\ pc = "sheet"
    /\ sheet_pos <= Len(excel)
    /\ ~HasFeatureColumn(excel[sheet_pos])
    /\ writer' = Append(writer, excel[sheet_pos])
    /\ sheet_pos' = sheet_pos + 1
    /\ UNCHANGED <<pc, truncVars, retrVars, orchVars, caller, excel, df, row_pos,
                   current_section, counters, word_doc, written, asked, propVars>>

\* for sheet_name in excel.sheet_names: a sheet with the feature column
StartSheet ==
    /\ pc = "sheet"
    /\ sheet_pos <= Len(excel)
    /\ HasFeatureColumn(excel[sheet_pos])
    /\ df' = WithOutputColumns(excel[sheet_pos])
    /\ current_section' = ""
    /\ counters' = NoCounters
    /\ row_pos' = 1
    /\ pc' = "row"
    /\ UNCHANGED <<truncVars, retrVars, orchVars, caller, excel, sheet_pos,
                   writer, word_doc, written, asked, propVars>>

RowText == Strip(df[row_pos][FEATURE_COL])

\* a row with no text: skipped
SkipRow ==
    /\ pc = "row"
    /\ row_pos <= Len(df)
    /\ RowText = "" \/ Lower(RowText) = "nan"
    /\ counters' = [counters EXCEPT !.skipped = @ + 1]
    /\ row_pos' = row_pos + 1
    /\ UNCHANGED <<pc, truncVars, retrVars, orchVars, caller, excel, sheet_pos, df,
                   current_section, writer, word_doc, written, asked, propVars>>

\* a section header: it sets current_section
HeaderRow ==
    /\ pc = "row"
    /\ row_pos <= Len(df)
    /\ ~(RowText = "" \/ Lower(RowText) = "nan")
    /\ IsSectionHeader(df[row_pos])
    /\ current_section' = RStripColon(RowText)
    /\ row_pos' = row_pos + 1
    /\ UNCHANGED <<pc, truncVars, retrVars, orchVars, caller, excel, sheet_pos, df,
                   counters, writer, word_doc, written, asked, propVars>>

\* a feature row: agentic_rfp_answer(enriched_query, mode="compliance",
\* provider=provider) is entered
FeatureRow ==
    /\ pc = "row"
    /\ row_pos <= Len(df)
    /\ ~(RowText = "" \/ Lower(RowText) = "nan")
    /\ ~IsSectionHeader(df[row_pos])
    /\ question' = EnrichedQuery(current_section, RowText)
    /\ mode' = "compliance"
    /\ retries' = DEFAULT_RETRIES
    /\ attempt' = 1
    /\ pc' = "attempt"
    /\ asked' = Append(asked, [sheet |-> sheet_pos, row |-> row_pos,
                                query |-> EnrichedQuery(current_section, RowText),
                                mode |-> "compliance"])
    /\ UNCHANGED <<truncVars, config, kb, context, provider, response, result,
                   retrieveCalls, retrieveFailures, generateCalls, lastCall,
                   firstValid, caller, excel, sheet_pos, df, row_pos,
                   current_section, counters, writer, word_doc, written,
                   propVars>>

\* the call is over: its frame is gone
CallOver ==
    /\ question' = "" /\ retries' = 0 /\ attempt' = 0
    /\ response' = "" /\ result' = ""
    /\ retrieveCalls' = 0 /\ retrieveFailures' = 0 /\ generateCalls' = 0
    /\ lastCall' = NoCall /\ firstValid' = NoValid
    /\ context' = ""

\* agentic_rfp_answer is back: the except clause, the empty-response test, or
\* the verdict and remarks written to the row and the Word summary
RowResult ==
    /\ caller = "compliance"
    /\ pc \in {"returned", "raised"}
    /\ IF pc = "raised"
       THEN /\ counters' = [counters EXCEPT !.errors = @ + 1]
            /\ UNCHANGED <<df, word_doc, written>>
       ELSE IF result = ""
       THEN /\ counters' = [counters EXCEPT !.skipped = @ + 1]
            /\ UNCHANGED <<df, word_doc, written>>
       ELSE /\ df' = [df EXCEPT ![row_pos] =
                        [@ EXCEPT ![COMPLIANCE_COL] = Verdict(result),
                                  ![REMARKS_COL] = Remarks(result)]]
            /\ word_doc' = word_doc \o <<[style |-> "Heading 2", text |-> RowText],
                                         [style |-> "Normal", text |-> result]>>
            /\ written' = Append(written, [sheet |-> sheet_pos, row |-> row_pos,
                                           query |-> question, response |-> result])
            /\ counters' = [counters EXCEPT !.processed = @ + 1]
    /\ row_pos' = row_pos + 1
    /\ pc' = "row"
    /\ CallOver
    /\ UNCHANGED <<truncVars, config, kb, mode, provider, caller, excel, sheet_pos,
                   current_section, writer, asked, propVars>>

\* the rows are done: df.to_excel(writer, ...)
EndSheet ==
    /\ pc = "row"
    /\ row_pos > Len(df)
    /\ writer' = Append(writer, df)
    /\ sheet_pos' = sheet_pos + 1
    /\ pc' = "sheet"
    /\ UNCHANGED <<truncVars, retrVars, orchVars, caller, excel, df, row_pos,
                   current_section, counters, word_doc, written, asked, propVars>>

\* the sheets are done: writer.close(), word_doc.save(word_output)
Finish ==
    /\ pc = "sheet"
    /\ sheet_pos > Len(excel)
    /\ pc' = "done"
    /\ UNCHANGED <<truncVars, retrVars, orchVars, compVars, propVars>>

NextComp ==
    \/ SkipSheet \/ StartSheet \/ SkipRow \/ HeaderRow \/ FeatureRow
    \/ RetrieveReturns \/ RetrieveRaises \/ Generate
    \/ RowResult \/ EndSheet \/ Finish

SpecComp == InitComp /\ [][NextComp]_vars


\* the first line of a response, and what follows its first newline
FirstLine(s) == IF Find(s, "\n") = -1 THEN s ELSE Prefix(s, Find(s, "\n"))
AfterFirstLine(s) == IF Find(s, "\n") = -1 THEN "" ELSE Suffix(s, Find(s, "\n") + 1)

\* the output row of a filled row: in the sheet in hand, or already written out
OutputRow(w) == IF w.sheet <= Len(writer) THEN writer[w.sheet][w.row] ELSE df[w.row]

VerdictTokens == {"YES", "NO", "PARTIAL"}

\* C10: the compliance cell of every filled row is YES, NO or PARTIAL: the
\* token the trimmed first response line equals case-insensitively, PARTIAL
\* for any other first line; the remarks cell is the rest of the response,
\* trimmed.
C10_VerdictInTokens ==
    \A k \in 1..Len(written) :
        LET w == written[k]
            cell == OutputRow(w)
            first == Strip(FirstLine(w.response))
        IN  /\ cell[COMPLIANCE_COL] \in VerdictTokens
            /\ \A tok \in VerdictTokens :
                 Lower(first) = Lower(tok) => cell[COMPLIANCE_COL] = tok
            /\ (\A tok \in VerdictTokens : Lower(first) # Lower(tok))
                 => cell[COMPLIANCE_COL] = "PARTIAL"
            /\ cell[REMARKS_COL] = Strip(AfterFirstLine(w.response))

\* an unrecognised first line was coerced, and a lower-case token was matched
C10_Witness ==
    /\ \E k \in 1..Len(written) :
         /\ written[k].response = "Maybe\nsome text"
         /\ OutputRow(written[k])[COMPLIANCE_COL] = "PARTIAL"
         /\ OutputRow(written[k])[REMARKS_COL] = "some text"
    /\ \E k \in 1..Len(written) :
         /\ written[k].response = "yes \n ok"
         /\ OutputRow(written[k])[COMPLIANCE_COL] = "YES"


\* the rows "OAuth2 support" of the input whose two cells are not filled in
UnfilledOAuthRows ==
    {sr \in UNION {{<<i, j>> : j \in 1..Len(excel[i])} : i \in 1..Len(excel)} :
        /\ FEATURE_COL \in DOMAIN excel[sr[1]][sr[2]]
        /\ excel[sr[1]][sr[2]][FEATURE_COL] = "OAuth2 support"
        /\ RowGet(excel[sr[1]][sr[2]], COMPLIANCE_COL) \in {"", "nan"}
        /\ RowGet(excel[sr[1]][sr[2]], REMARKS_COL) \in {"", "nan"}}

\* C11 as stated: with the vector store holding the single chunk "System
\* supports OAuth2." and the completion provider answering "YES\nFully
\* compliant via OAuth2 module.", a finished run has written verdict YES and
\* remarks "Fully compliant via OAuth2 module." to the unfilled row
\* "OAuth2 support".
C11_EndToEnd ==
    (pc = "done" /\ kb = <<"System supports OAuth2.">>) =>
        \A sr \in UnfilledOAuthRows :
            \/ \E k \in 1..Len(written) :
                 /\ written[k].sheet = sr[1] /\ written[k].row = sr[2]
                 /\ written[k].response # "YES\nFully compliant via OAuth2 module."
            \/ /\ writer[sr[1]][sr[2]][COMPLIANCE_COL] = "YES"
               /\ writer[sr[1]][sr[2]][REMARKS_COL] = "Fully compliant via OAuth2 module."


\* The calls C14 describes, computed from the input sheet alone. A row with
\* text is a header when the text ends with ':' or both its cells are empty
\* and the text has fewer than 60 characters; a header sets the label to its
\* text without the trailing ':'; any other row with text asks one question,
\* the label followed by the text, or the text alone under an empty label.
C14_HasText(row) ==
    LET t == Strip(row[FEATURE_COL]) IN t # "" /\ Lower(t) # "nan"
C14_CellEmpty(row, col) ==
    col \notin DOMAIN row \/ Strip(row[col]) \in {"", "nan"}
C14_IsHeader(row) ==
    LET t == Strip(row[FEATURE_COL])
    IN  \/ SubSeq(t, Len(t), Len(t)) = ":"
        \/ /\ C14_CellEmpty(row, COMPLIANCE_COL)
           /\ C14_CellEmpty(row, REMARKS_COL)
           /\ Len(t) < 60
RECURSIVE C14_NoColon(_)
C14_NoColon(t) ==
    IF t # "" /\ SubSeq(t, Len(t), Len(t)) = ":"
    THEN C14_NoColon(SubSeq(t, 1, Len(t) - 1))
    ELSE t
RECURSIVE C14_SheetCalls(_, _, _, _)
C14_SheetCalls(rows, i, label, sheet) ==
    IF i > Len(rows) THEN <<>>
    ELSE LET t == Strip(rows[i][FEATURE_COL])
         IN  IF ~C14_HasText(rows[i]) THEN C14_SheetCalls(rows, i + 1, label, sheet)
             ELSE IF C14_IsHeader(rows[i])
             THEN C14_SheetCalls(rows, i + 1, C14_NoColon(t), sheet)
             ELSE <<[sheet |-> sheet, row |-> i,
                     query |-> IF label = "" THEN t ELSE Strip(label \o " " \o t),
                     mode |-> "compliance"]>>
                  \o C14_SheetCalls(rows, i + 1, label, sheet)
RECURSIVE C14_Calls(_)
C14_Calls(n) ==
    IF n = 0 THEN <<>>
    ELSE C14_Calls(n - 1) \o
         (IF \E i \in 1..Len(excel[n]) : FEATURE_COL \in DOMAIN excel[n][i]
          THEN C14_SheetCalls(excel[n], 1, "", n)
          ELSE <<>>)

\* C14: the orchestrator calls made so far are, in order, the first calls of
\* the list above (one per feature row, none for a header or an empty row,
\* mode compliance, the label of the same sheet's latest header before the
\* row text, the label empty at the start of each sheet); a finished run has
\* made all of them.
C14_RowsInOrder ==
    LET all == C14_Calls(Len(excel))
    IN  /\ Len(asked) <= Len(all)
        /\ asked = SubSeq(all, 1, Len(asked))
        /\ pc = "done" => asked = all
        /\ pc \in {"attempt", "generate", "returned"} =>
              /\ Len(asked) > 0
              /\ question = asked[Len(asked)].query
              /\ mode = asked[Len(asked)].mode

\* a feature row asked its question under the label of the header before it,
\* and a feature row of the next sheet asked with the label reset
C14_Witness ==
    /\ pc = "done"
    /\ Len(asked) = 2
    /\ asked[1] = [sheet |-> 1, row |-> 2, query |-> "Access  Audit logs",
                   mode |-> "compliance"]
    /\ asked[2] = [sheet |-> 2, row |-> 1, query |-> LongFeature,
                   mode |-> "compliance"]

-----------------------------------------------------------------------------
(* proposal_generator.generate_proposal_from_sections *)

Heading(t) == [style |-> "Heading 1", text |-> t]
Paragraph(t) == [style |-> "Normal", text |-> t]

\* para.style.name.startswith("Heading")
IsHeadingStyle(para) == Prefix(para.style, 7) = "Heading"

\* Faulty variant: a heading counts as written whether or not a paragraph follows.
ExistingHeadings_AnyHeading(paragraphs) ==
    {Strip(paragraphs[i].text) :
        i \in {j \in 1..Len(paragraphs) : IsHeadingStyle(paragraphs[j])}}

\* the headings of the document that have content after them
ExistingHeadings(paragraphs) ==
    {Strip(paragraphs[i].text) :
        i \in {j \in 1..Len(paragraphs) :
                 /\ IsHeadingStyle(paragraphs[j])
                 /\ j + 1 <= Len(paragraphs)
                 /\ Strip(paragraphs[j + 1].text) # ""}}

\* "\n".join(f"- {b.strip()}" for b in bullets if b.strip())
RECURSIVE BulletLines(_)
BulletLines(bullets) ==
    IF Len(bullets) = 0 THEN <<>>
    ELSE IF Strip(Head(bullets)) # ""
         THEN <<"- " \o Strip(Head(bullets))>> \o BulletLines(Tail(bullets))
         ELSE BulletLines(Tail(bullets))
CombinedRequirements(bullets) == JoinLines(BulletLines(bullets))

\* the query of a section
SectionQuery(heading, combined_requirements) ==
    "\nRespond to the following section requirements in a structured enterprise manner.\n\nSection:\n"
    \o heading \o "\n\nRequirements:\n" \o combined_requirements \o "\n"

\* Faulty variant: the handlers re-raise without saving.
SaveOnAbort_NoSave(paragraphs) == file

\* doc.save(output_path) in the two except clauses of the loop
SaveOnAbort(paragraphs) == [exists |-> TRUE, paragraphs |-> paragraphs]

Section(h, b) == [heading |-> h, bullets |-> b]

\* Section lists and output files the runs start from
ProposalInputs ==
    { [sections |-> <<Section("1. Security", <<"Encrypt data at rest", " ">>),
                      Section("2. Scope", <<>>),
                      Section("A. Support", <<"24x7 helpdesk">>)>>,
       file |-> NoFile],
      [sections |-> <<Section("Security", <<"SSO">>)>>,
       file |-> [exists |-> TRUE,
                 paragraphs |-> <<Heading("Security"), Paragraph("Existing answer.")>>]],
      [sections |-> <<Section("Security", <<"SSO">>)>>,
       file |-> [exists |-> TRUE, paragraphs |-> <<Heading("Security")>>]],
      [sections |-> <<Section("Security", <<"SSO">>)>>,
       file |-> [exists |-> TRUE,
                 paragraphs |-> <<Heading("Security"), Paragraph(" ")>>]] }

InitProp ==
    /\ pc = "p_start"
    /\ IdleTrunc
    /\ config = <<>> /\ kb = <<>> /\ mode = "proposal" /\ context = ""
    /\ NoCallFrame
    /\ provider \in Providers
    /\ caller = "proposal"
    /\ excel = <<>> /\ sheet_pos = 0 /\ df = <<>> /\ row_pos = 0
    /\ current_section = "" /\ counters = NoCounters
    /\ writer = <<>> /\ word_doc = <<>> /\ written = <<>> /\ asked = <<>>
    /\ \E inp \in ProposalInputs : sections = inp.sections /\ file = inp.file
    /\ resume \in BOOLEAN
    /\ doc = <<>>
    /\ existing_headings = {}
    /\ sec_pos = 0
    /\ tally = NoTally
    /\ aborts = 0
    /\ run = NoRun

\* a call of generate_proposal_from_sections: the resume handling; it is called
\* once, or again after a run ended
StartRun ==
    /\ pc \in {"p_start", "p_done", "p_interrupted", "p_failed"}
    /\ IF resume /\ file.exists
       THEN /\ doc' = file.paragraphs
            /\ existing_headings' = ExistingHeadings(file.paragraphs)
       ELSE /\ doc' = <<>>
            /\ existing_headings' = {}
    /\ sec_pos' = 1
    /\ tally' = NoTally
    /\ run' = [start_file |-> file, after_done |-> pc = "p_done",
               from_scratch |-> IF pc = "p_start" THEN ~file.exists
                                                  ELSE run.from_scratch,
               asked |-> <<>>, added |-> <<>>, completed |-> <<>>]
    /\ pc' = "p_section"
    /\ UNCHANGED <<truncVars, retrVars, orchVars, compVars, sections, resume, file,
                   aborts>>

\* a section whose heading is in existing_headings: skipped
SkipExisting ==
    /\ pc = "p_section"
    /\ sec_pos <= Len(sections)
    /\ Strip(sections[sec_pos].heading) \in existing_headings
    /\ tally' = [tally EXCEPT !.skipped = @ + 1]
    /\ sec_pos' = sec_pos + 1
    /\ UNCHANGED <<pc, truncVars, retrVars, orchVars, compVars, sections, resume,
                   file, doc, existing_headings, aborts, run>>

\* a section without bullet content: skipped
SkipNoBullets ==
    /\ pc = "p_section"
    /\ sec_pos <= Len(sections)
    /\ Strip(sections[sec_pos].heading) \notin existing_headings
    /\ Strip(CombinedRequirements(sections[sec_pos].bullets)) = ""
    /\ tally' = [tally EXCEPT !.skipped = @ + 1]
    /\ sec_pos' = sec_pos + 1
    /\ UNCHANGED <<pc, truncVars, retrVars, orchVars, compVars, sections, resume,
                   file, doc, existing_headings, aborts, run>>

\* a section to write: doc.add_heading(heading, level=1), then
\* agentic_rfp_answer(query, mode="proposal", provider=provider) is entered
BeginSection ==
    /\ pc = "p_section"
    /\ sec_pos <= Len(sections)
    /\ Strip(sections[sec_pos].heading) \notin existing_headings
    /\ Strip(CombinedRequirements(sections[sec_pos].bullets)) # ""
    /\ doc' = Append(doc, Heading(sections[sec_pos].heading))
    /\ question' = SectionQuery(sections[sec_pos].heading,
                                CombinedRequirements(sections[sec_pos].bullets))
    /\ mode' = "proposal"
    /\ retries' = DEFAULT_RETRIES
    /\ attempt' = 1
    /\ pc' = "attempt"
    /\ run' = [run EXCEPT !.asked = Append(@, sec_pos), !.added = Append(@, sec_pos)]
    /\ UNCHANGED <<truncVars, config, kb, context, provider, response, result,
                   retrieveCalls, retrieveFailures, generateCalls, lastCall,
                   firstValid, compVars, sections, resume, file,
                   existing_headings, sec_pos, tally, aborts>>

\* agentic_rfp_answer is back: the except clause and the empty-response test
\* put the sentinel in; the paragraph is added and the document saved
SectionResult ==
    /\ caller = "proposal"
    /\ pc \in {"returned", "raised"}
    /\ LET answer == IF pc = "raised" \/ result = "" THEN FALLBACK_RESPONSE ELSE result
       IN  /\ doc' = Append(doc, Paragraph(answer))
           /\ file' = [exists |-> TRUE, paragraphs |-> Append(doc, Paragraph(answer))]
           /\ run' = [run EXCEPT !.completed =
                        Append(@, [heading |-> sections[sec_pos].heading,
                                   response |-> answer])]
    /\ tally' = [tally EXCEPT !.completed = @ + 1,
                              !.errors = IF pc = "raised" THEN @ + 1 ELSE @]
    /\ sec_pos' = sec_pos + 1
    /\ pc' = "p_section"
    /\ CallOver
    /\ UNCHANGED <<truncVars, config, kb, mode, provider, compVars, sections, resume,
                   existing_headings, aborts>>

\* KeyboardInterrupt while the response is generated: no except Exception
\* clause catches it; the document is saved and the interrupt raised again
Interrupt ==
    /\ caller = "proposal"
    /\ pc \in {"attempt", "generate"}
    /\ aborts < MaxAborts
    /\ aborts' = aborts + 1
    /\ file' = SaveOnAbort(doc)
    /\ pc' = "p_interrupted"
    /\ CallOver
    /\ UNCHANGED <<truncVars, config, kb, mode, provider, compVars, sections, resume,
                   doc, existing_headings, sec_pos, tally, run>>

\* doc.add_paragraph(response) raises (a text python-docx cannot store): the
\* document is saved and the exception raised again
UnexpectedError ==
    /\ caller = "proposal"
    /\ pc = "returned"
    /\ aborts < MaxAborts
    /\ aborts' = aborts + 1
    /\ file' = SaveOnAbort(doc)
    /\ pc' = "p_failed"
    /\ CallOver
    /\ UNCHANGED <<truncVars, config, kb, mode, provider, compVars, sections, resume,
                   doc, existing_headings, sec_pos, tally, run>>

\* the loop is over: the summary is printed
FinishRun ==
    /\ pc = "p_section"
    /\ sec_pos > Len(sections)
    /\ pc' = "p_done"
    /\ UNCHANGED <<truncVars, retrVars, orchVars, compVars, propVars>>

NextProp ==
    \/ StartRun \/ SkipExisting \/ SkipNoBullets \/ BeginSection
    \/ RetrieveReturns \/ RetrieveRaises \/ Generate
    \/ SectionResult \/ Interrupt \/ UnexpectedError \/ FinishRun

SpecProp == InitProp /\ [][NextProp]_vars


\* in the output the run started from, heading h is a heading followed by a
\* non-empty paragraph / is a heading but nowhere followed by one
C12_Written(h) ==
    LET ps == run.start_file.paragraphs
    IN  \E i \in 1..(Len(ps) - 1) :
            /\ Prefix(ps[i].style, 7) = "Heading"
            /\ Strip(ps[i].text) = Strip(h)
            /\ Strip(ps[i + 1].text) # ""
C12_Bare(h) ==
    LET ps == run.start_file.paragraphs
    IN  /\ \E i \in 1..Len(ps) :
            Prefix(ps[i].style, 7) = "Heading" /\ Strip(ps[i].text) = Strip(h)
        /\ ~C12_Written(h)

\* the positions in a sequence of positions
Range(seq) == {seq[i] : i \in 1..Len(seq)}

\* the sections the loop of the run in hand is done with
C12_Handled == IF pc = "p_start" THEN {} ELSE 1..(sec_pos - 1)

C13_Holds(ps, h, body) ==
    \E i \in 1..(Len(ps) - 1) : ps[i] = Heading(h) /\ ps[i + 1] = Paragraph(body)

\* C13: at any point the saved file holds the heading and the response of
\* every section the run in hand has completed, and when the loop ends in a
\* KeyboardInterrupt or an unexpected exception the file has been saved once
\* more, so it holds the whole document as built up to the exception.
C13_CrashRecovery ==
    /\ \A i \in 1..Len(run.completed) :
         /\ file.exists
         /\ C13_Holds(file.paragraphs, run.completed[i].heading,
                      run.completed[i].response)
    /\ pc \in {"p_interrupted", "p_failed"}
         => (file.exists /\ file.paragraphs = doc)

\* interrupted while the second answered section was being generated: one
\* section is complete and the saved document ends in the new heading
C13_Witness ==
    /\ pc = "p_interrupted"
    /\ Len(run.completed) = 1
    /\ file.exists
    /\ Len(file.paragraphs) >= 3
    /\ IsHeadingStyle(file.paragraphs[Len(file.paragraphs)])


\* the positions in paragraphs ps of the headings with text h
C15_HeadingsOf(ps, h) ==
    {i \in 1..Len(ps) : Prefix(ps[i].style, 7) = "Heading" /\ ps[i].text = h}

C15_DistinctHeadings ==
    \A j, k \in 1..Len(sections) :
        sections[j].heading = sections[k].heading => j = k

\* C15: after any sequence of runs with resume=True over one section list
\* with distinct headings, begun with no output file and with runs
\* interrupted during generation among them, the document of a finished run
\* holds each section heading at most once and every heading in it is
\* immediately followed by a non-empty paragraph that is not a heading.
C15_HeadingOnceThenResponse ==
    (resume /\ run.from_scratch /\ C15_DistinctHeadings /\ pc = "p_done") =>
        LET ps == file.paragraphs
        IN  /\ \A k \in 1..Len(sections) :
                 Cardinality(C15_HeadingsOf(ps, sections[k].heading)) <= 1
            /\ \A i \in 1..Len(ps) :
                 Prefix(ps[i].style, 7) = "Heading"
                    => /\ i < Len(ps)
                       /\ Prefix(ps[i + 1].style, 7) # "Heading"
                       /\ ps[i + 1].text # ""

====
